---- MODULE Spec2Model ----
(***************************************************************************)
(* Cart store (zustand store useCartStore) and checkout endpoint (POST of  *)
(* the checkout route) of the storefront, as state machines.               *)
(*                                                                         *)
(* Money is kept in cents; a Decimal(10,2) column holds an integer number  *)
(* of cents.                                                               *)
(***************************************************************************)
EXTENDS Integers, Sequences, FiniteSets, TLC

(***************************************************************************)
(* Bounds of the model.                                                    *)
(***************************************************************************)
MaxQty == 3          \* largest quantity a caller of the cart passes
MaxIds == 2          \* number of identities crypto.randomUUID hands out
MaxTimers == 2       \* auto-close callbacks pending at the same time
MaxCalls == 3        \* length of a sequence of same-tuple addItem calls
MaxNegative == 1     \* a cart entry's quantity is kept >= -MaxNegative

MinQty == 0 - MaxNegative

(***************************************************************************)
(* Cart store: values.                                                     *)
(***************************************************************************)
Undefined == "undefined"

\* Ids: p1 and p2 are products of the catalog, v1 and v2 variants of p1;
\* DeletedProductId is the id of a product that is no longer in the catalog.
DeletedProductId == "p0"

CartProductIds == {"p1", "p2"}
CartVariantIds == {Undefined, "v1"}

\* A customization payload is an object: its keys in insertion order, or
\* undefined.  CustomA and CustomB hold the same key-value pairs.
NoCustom == [defined |-> FALSE, entries |-> <<>>]
CustomA == [defined |-> TRUE,
            entries |-> << <<"blouse", "yes">>, <<"length", "42">> >>]
CustomB == [defined |-> TRUE,
            entries |-> << <<"length", "42">>, <<"blouse", "yes">> >>]
Customizations == {NoCustom, CustomA, CustomB}

QtyInputs == (0 - 1) .. MaxQty
MaxQuantities == {1, 2}

\* Unit price, in cents, the product page passes for a product.
CartPrice(productId) == IF productId = "p1" THEN 4500 ELSE 12000

\* The items a caller passes to addItem.
NewItems ==
  { [productId |-> p, variantId |-> v, customizations |-> c,
     quantity |-> q, maxQuantity |-> m, price |-> CartPrice(p)] :
      p \in CartProductIds, v \in CartVariantIds, c \in Customizations,
      q \in QtyInputs, m \in MaxQuantities }

\* Stock ceiling the product page knows for a product.
CartMaxQuantity(productId) == IF productId = "p1" THEN 2 ELSE 1

\* The items the pages of the shop pass to addItem: p1 comes plain, as
\* variant v1 or customized, p2 comes plain.
ShopItems ==
  { n \in NewItems :
      /\ n.maxQuantity = CartMaxQuantity(n.productId)
      /\ n.productId = "p2" =>
           n.variantId = Undefined /\ n.customizations = NoCustom
      /\ n.variantId # Undefined => n.customizations = NoCustom }

ItemIds == 1 .. (MaxIds + 1)

VARIABLES
  items,       \* CartState.items
  isOpen,      \* CartState.isOpen
  timers,      \* number of pending setTimeout callbacks of addItem
  toast,       \* the toast of the last operation
  nextId,      \* the next identity crypto.randomUUID returns
  calls,       \* the addItem calls of a same-tuple run: item and outcome
  storage,     \* localStorage['glamorousdesi-cart']
  lastCall     \* the last call of the store, with the state it found

cartVars == <<items, isOpen, timers, toast, nextId, calls, storage, lastCall>>

(***************************************************************************)
(* Checkout endpoint: values.                                              *)
(***************************************************************************)
MaxLines == 2        \* lines of a cart snapshot sent to checkout
MaxLineQty == 1      \* largest quantity of a line of a snapshot
MaxEdits == 1        \* edits of the catalog during a run
MaxClock == 1        \* clock ticks (milliseconds) during a run

Attempts == {"a1", "a2"}

NoVariant == "none"
NoImage == "none"
NoSession == 0
NoError == [kind |-> "none", arg |-> "none"]

\* Rows of the products table and of the product_variants table at start.
InitProducts ==
  [p \in {"p1", "p2"} |->
     IF p = "p1"
     THEN [isActive |-> TRUE, name |-> "Silk Saree", sku |-> "SKU-P1",
           images |-> <<"p1.jpg">>, basePrice |-> 6000, hasSale |-> TRUE,
           salePrice |-> 4500, stockQuantity |-> 1]
     ELSE [isActive |-> TRUE, name |-> "Lehenga", sku |-> "SKU-P2",
           images |-> <<>>, basePrice |-> 12000, hasSale |-> FALSE,
           salePrice |-> 9900, stockQuantity |-> 1]]

InitVariants ==
  [v \in {"v1", "v2"} |->
     IF v = "v1"
     THEN [productId |-> "p1", isActive |-> TRUE, sku |-> "SKU-V1",
           price |-> 8000, stockQuantity |-> 0]
     ELSE [productId |-> "p1", isActive |-> FALSE, sku |-> "SKU-V2",
           price |-> 2000, stockQuantity |-> 1]]

\* The lines a client can send: p1 plain or with one of its variants, p2
\* plain, p2 with a variant that is not its own, and p0, the id of no
\* product.
LineQuantities == (0 - 1) .. MaxLineQty

Lines ==
  { [productId |-> "p1", variantId |-> v, quantity |-> q] :
      v \in {NoVariant, "v1", "v2"}, q \in LineQuantities }
  \cup { [productId |-> "p2", variantId |-> NoVariant, quantity |-> q] :
           q \in LineQuantities }
  \cup { [productId |-> "p2", variantId |-> "v1", quantity |-> 1],
         [productId |-> DeletedProductId, variantId |-> NoVariant,
          quantity |-> 1] }

RECURSIVE SeqsUpTo(_, _)
SeqsUpTo(S, n) ==
  IF n = 0 THEN { <<>> }
  ELSE LET shorter == SeqsUpTo(S, n - 1)
       IN  shorter \cup { Append(q, x) : q \in shorter, x \in S }

\* The request bodies: items missing, or a list of lines.
Requests ==
  { [present |-> FALSE, lines |-> <<>>] }
  \cup { [present |-> TRUE, lines |-> ls] : ls \in SeqsUpTo(Lines, MaxLines) }

\* The request bodies of two shoppers after the same stock.
RaceRequests ==
  { [present |-> TRUE,
     lines |-> << [productId |-> "p1", variantId |-> v, quantity |-> q] >>] :
      v \in {NoVariant, "v2"}, q \in 1..MaxLineQty }

\* Messages of the errors the database client throws.
DbErrors == {"Can't reach database server", "Timed out fetching a connection"}
\* Messages of the errors the payment provider's client throws.
StripeErrors == {"An error occurred with our connection to Stripe"}
\* Messages of the errors reading the session and the request body throws.
RequestErrors == {"Unexpected end of JSON input"}

\* The Error instances a client library throws.
Thrown(messages) == { [isError |-> TRUE, message |-> m] : m \in messages }

\* A thrown value that is not an Error instance.
NonError == [isError |-> FALSE, message |-> "none"]

VARIABLES
  products,    \* the rows of the products table
  variants,    \* the rows of the product_variants table
  edits,       \* number of edits of the catalog so far
  now,         \* Date.now()
  pc,          \* where each checkout attempt stands
  request,     \* the body of each attempt's request
  fetched,     \* the result of findMany of each attempt
  readFrom,    \* the tables as they were when findMany read them
  draft,       \* order data and payment line items of each attempt
  order,       \* the row returned by order.create to each attempt
  session,     \* the session returned by sessions.create to each attempt
  orders,      \* the rows of the orders table
  sessions,    \* the checkout sessions the payment provider holds
  response,    \* the HTTP response of each attempt
  logged,      \* what each attempt wrote with console.error
  failedAt     \* the step of each attempt that threw

storeVars == <<products, variants, edits>>

checkoutVars == <<now, pc, request, fetched, readFrom, draft, order, session,
                  orders, sessions, response, logged, failedAt>>

VARIABLES
  query,       \* the search parameters of the catalog request
  listing,     \* the HTTP response of the catalog request
  totalPrice,  \* the amount shipping is asked for
  shipping     \* what each calculateShipping returned for it

catalogVars == <<query, listing>>

shippingVars == <<totalPrice, shipping>>

vars == <<cartVars, storeVars, checkoutVars, catalogVars, shippingVars>>

(***************************************************************************)
(* Cart store: helpers.                                                    *)
(***************************************************************************)
\* The members of an object as JSON.stringify writes them: in insertion
\* order, separated by commas.
RECURSIVE StringifyEntries(_)
StringifyEntries(es) ==
  IF es = <<>> THEN <<>>
  ELSE <<Head(es)[1], ":", Head(es)[2]>>
       \o (IF Tail(es) = <<>> THEN <<>> ELSE <<",">>)
       \o StringifyEntries(Tail(es))

\* JSON.stringify of a customization payload, as the sequence of its tokens;
\* JSON.stringify(undefined) is undefined.
JSONStringify(c) ==
  IF ~c.defined THEN <<Undefined>>
  ELSE <<"{">> \o StringifyEntries(c.entries) \o <<"}">>

\* The predicate of findIndex in addItem.
SameTuple(item, newItem) ==
  /\ item.productId = newItem.productId
  /\ item.variantId = newItem.variantId
  /\ JSONStringify(item.customizations) = JSONStringify(newItem.customizations)

\* items.findIndex(pred): the first matching index, 0 for -1.
FindIndex(its, newItem) ==
  IF \E i \in 1..Len(its) : SameTuple(its[i], newItem)
  THEN CHOOSE i \in 1..Len(its) :
         /\ SameTuple(its[i], newItem)
         /\ \A j \in 1..(i - 1) : ~SameTuple(its[j], newItem)
  ELSE 0

\* items.filter(item => item.id !== itemId)
RECURSIVE FilterOut(_, _)
FilterOut(its, itemId) ==
  IF its = <<>> THEN <<>>
  ELSE IF Head(its).id = itemId THEN FilterOut(Tail(its), itemId)
       ELSE <<Head(its)>> \o FilterOut(Tail(its), itemId)

HasId(its, itemId) == \E i \in 1..Len(its) : its[i].id = itemId

\* items.find(item => item.id === itemId), for an id that is present.
FindById(its, itemId) ==
  its[CHOOSE i \in 1..Len(its) :
        /\ its[i].id = itemId
        /\ \A j \in 1..(i - 1) : its[j].id # itemId]

\* The merge guard with >= in place of >.
MergeRejectedOffByOne(existingItem, newQuantity) ==
  newQuantity >= existingItem.maxQuantity

\* The guard of the merge branch of addItem.
MergeRejected(existingItem, newQuantity) ==
  newQuantity > existingItem.maxQuantity

\* The append guard that lets one piece more than maxQuantity pass.
AppendRejectedLate(newItem) ==
  newItem.quantity > newItem.maxQuantity + 1

\* The guard of the append branch of addItem.
AppendRejected(newItem) ==
  newItem.quantity > newItem.maxQuantity

\* The guard of updateQuantity with >= in place of >.
UpdateRejectedOffByOne(item, quantity) ==
  quantity >= item.maxQuantity

\* The guard of updateQuantity on an entry that exists.
UpdateRejected(item, quantity) ==
  quantity > item.maxQuantity

\* The first test of updateQuantity with < in place of <=.
DelegatesToRemoveBelowZero(quantity) == quantity < 0

\* The first test of updateQuantity: the call is handed to removeItem.
DelegatesToRemove(quantity) == quantity <= 0

\* items.reduce((total, item) => total + item.quantity, total)
RECURSIVE ReduceQuantity(_, _)
ReduceQuantity(its, total) ==
  IF its = <<>> THEN total
  ELSE ReduceQuantity(Tail(its), total + Head(its).quantity)

getTotalItems(its) == ReduceQuantity(its, 0)

\* The callback of the reduce of getTotalPrice without the quantity.
PriceTermOfOne(item) == item.price

\* The term the callback of the reduce of getTotalPrice adds for an item.
PriceTerm(item) == item.price * item.quantity

\* items.reduce((total, item) => total + (item.price * item.quantity), total)
RECURSIVE ReducePrice(_, _)
ReducePrice(its, total) ==
  IF its = <<>> THEN total
  ELSE ReducePrice(Tail(its), total + PriceTerm(Head(its)))

getTotalPrice(its) == ReducePrice(its, 0)

(***************************************************************************)
(* Cart store: persistence.  The persist middleware writes                 *)
(* JSON.stringify({state: partialize(state), version: 0}) under the key    *)
(* of the store after every set, and merges JSON.parse of it into the      *)
(* state after construction when the page loads.                           *)
(***************************************************************************)
NoStorage == [written |-> FALSE]

\* The keys of a cart entry, in the order of the model.
ItemKeys == <<"productId", "variantId", "customizations", "quantity",
              "maxQuantity", "price", "id">>

\* JSON.stringify of a member of an entry: a customization payload is
\* written as an object, any other value as itself.
StringifyValue(item, key) ==
  IF key = "customizations" THEN JSONStringify(item.customizations)
  ELSE item[key]

\* The value of a member is undefined.
IsUndefined(item, key) ==
  IF key = "customizations" THEN ~item.customizations.defined
  ELSE IF key = "variantId" THEN item.variantId = Undefined
  ELSE FALSE

\* The members JSON.stringify writes for an entry: those whose value is
\* undefined are left out.
RECURSIVE StringifyMembers(_, _)
StringifyMembers(item, keys) ==
  IF keys = <<>> THEN <<>>
  ELSE (IF IsUndefined(item, Head(keys)) THEN <<>>
        ELSE << [key |-> Head(keys),
                 value |-> StringifyValue(item, Head(keys))] >>)
       \o StringifyMembers(item, Tail(keys))

\* JSON.stringify of the items array.
StringifyItems(its) ==
  [i \in 1..Len(its) |-> StringifyMembers(its[i], ItemKeys)]

\* partialize that keeps the whole state.
PartializeAll(state) == state

\* partialize: (state) => ({ items: state.items })
Partialize(state) == [items |-> state.items]

\* JSON.stringify of the partialized state.
StringifyState(part) ==
  [key \in DOMAIN part |->
     IF key = "items" THEN StringifyItems(part.items) ELSE part[key]]

\* What the middleware writes for a state.
Persisted(its, open) ==
  [written |-> TRUE,
   state |-> StringifyState(Partialize([items |-> its, isOpen |-> open])),
   version |-> 0]

\* JSON.parse of the text of a customization payload.
RECURSIVE ParseEntries(_)
ParseEntries(tokens) ==
  IF Len(tokens) < 3 THEN <<>>
  ELSE << <<tokens[1], tokens[3]>> >>
       \o ParseEntries(SubSeq(tokens,
             IF Len(tokens) > 3 /\ tokens[4] = "," THEN 5 ELSE 4,
             Len(tokens)))

JSONParse(tokens) ==
  [defined |-> TRUE,
   entries |-> ParseEntries(SubSeq(tokens, 2, Len(tokens) - 1))]

HasMember(members, key) == \E i \in 1..Len(members) : members[i].key = key

MemberValue(members, key) ==
  members[CHOOSE i \in 1..Len(members) : members[i].key = key].value

\* The entry JSON.parse builds from the members written for it; reading a
\* member that was not written gives undefined.
ParseItem(members) ==
  [id |-> MemberValue(members, "id"),
   productId |-> MemberValue(members, "productId"),
   variantId |-> IF HasMember(members, "variantId")
                 THEN MemberValue(members, "variantId") ELSE Undefined,
   customizations |-> IF HasMember(members, "customizations")
                      THEN JSONParse(MemberValue(members, "customizations"))
                      ELSE NoCustom,
   quantity |-> MemberValue(members, "quantity"),
   maxQuantity |-> MemberValue(members, "maxQuantity"),
   price |-> MemberValue(members, "price")]

ParseItems(texts) == [i \in 1..Len(texts) |-> ParseItem(texts[i])]

\* The state after construction merged with the persisted state:
\* { ...currentState, ...persistedState }.
Rehydrated(stored) ==
  IF ~stored.written THEN [items |-> <<>>, isOpen |-> FALSE]
  ELSE [items |-> ParseItems(stored.state.items),
        isOpen |-> IF "isOpen" \in DOMAIN stored.state
                   THEN stored.state.isOpen ELSE FALSE]

NoCall == [op |-> "none"]

\* The store as a call finds it.
Before == [items |-> items, isOpen |-> isOpen, timers |-> timers,
           storage |-> storage]

(***************************************************************************)
(* Cart store: state after construction.                                   *)
(***************************************************************************)
CartInit ==
  /\ items = <<>>
  /\ isOpen = FALSE
  /\ timers = 0
  /\ toast = "none"
  /\ nextId = 1
  /\ calls = <<>>
  /\ storage = NoStorage
  /\ lastCall = NoCall

NoFetch == [products |-> <<>>, variants |-> <<>>]
NoDraft == [made |-> FALSE]
NoOrder == [id |-> 0]
NoResponse == [status |-> 0]

StoreInit ==
  /\ products = InitProducts
  /\ variants = InitVariants
  /\ edits = 0

CheckoutInit ==
  /\ now = 0
  /\ pc = [a \in Attempts |-> "idle"]
  /\ request = [a \in Attempts |-> [present |-> FALSE, lines |-> <<>>]]
  /\ fetched = [a \in Attempts |-> NoFetch]
  /\ readFrom = [a \in Attempts |-> NoFetch]
  /\ draft = [a \in Attempts |-> NoDraft]
  /\ order = [a \in Attempts |-> NoOrder]
  /\ session = [a \in Attempts |-> NoSession]
  /\ orders = <<>>
  /\ sessions = <<>>
  /\ response = [a \in Attempts |-> NoResponse]
  /\ logged = [a \in Attempts |-> <<>>]
  /\ failedAt = [a \in Attempts |-> "none"]

\* No catalog request was served yet.
NoQuery == [asked |-> FALSE]
NoListing == [status |-> 0]

CatalogInit ==
  /\ query = NoQuery
  /\ listing = NoListing

\* calculateShipping was not called yet.
NotCalculated == 0 - 1
NoShipping == [cart |-> NotCalculated, checkout |-> NotCalculated]

Init ==
  /\ CartInit
  /\ StoreInit
  /\ CheckoutInit
  /\ CatalogInit
  /\ totalPrice = 0
  /\ shipping = NoShipping

(***************************************************************************)
(* Cart store: operations.                                                 *)
(***************************************************************************)
\* addItem on the store and the storage: every set is followed by the
\* write of the middleware.
AddItemStep(newItem) ==
  LET existingItemIndex == FindIndex(items, newItem) IN
  IF existingItemIndex > 0
  THEN LET existingItem == items[existingItemIndex]
           newQuantity == existingItem.quantity + newItem.quantity
       IN  /\ newQuantity >= MinQty
           /\ IF MergeRejected(existingItem, newQuantity)
              THEN /\ toast' = "error"
                   /\ UNCHANGED <<items, isOpen, timers, nextId, storage>>
              ELSE /\ timers < MaxTimers
                   /\ items' = [items EXCEPT
                                  ![existingItemIndex].quantity = newQuantity]
                   /\ toast' = "success"
                   /\ isOpen' = TRUE
                   /\ timers' = timers + 1
                   /\ storage' = Persisted(items', isOpen')
                   /\ UNCHANGED nextId
  ELSE IF AppendRejected(newItem)
       THEN /\ toast' = "error"
            /\ UNCHANGED <<items, isOpen, timers, nextId, storage>>
       ELSE /\ timers < MaxTimers
            /\ nextId <= MaxIds
            /\ items' = Append(items,
                 [id |-> nextId,
                  productId |-> newItem.productId,
                  variantId |-> newItem.variantId,
                  customizations |-> newItem.customizations,
                  quantity |-> newItem.quantity,
                  maxQuantity |-> newItem.maxQuantity,
                  price |-> newItem.price])
            /\ nextId' = nextId + 1
            /\ toast' = "success"
            /\ isOpen' = TRUE
            /\ timers' = timers + 1
            /\ storage' = Persisted(items', isOpen')

AddItem(newItem) ==
  /\ AddItemStep(newItem)
  /\ lastCall' = [op |-> "addItem", item |-> newItem, before |-> Before]
  /\ UNCHANGED <<calls, storeVars, checkoutVars, catalogVars, shippingVars>>

\* removeItem, on the variables it touches.
RemoveItemStep(itemId) ==
  /\ items' = FilterOut(items, itemId)
  /\ storage' = Persisted(items', isOpen)
  /\ toast' = IF HasId(items, itemId) THEN "success" ELSE "none"
  /\ UNCHANGED <<isOpen, timers, nextId>>

RemoveItem(itemId) ==
  /\ RemoveItemStep(itemId)
  /\ lastCall' = [op |-> "removeItem", itemId |-> itemId, before |-> Before]
  /\ UNCHANGED <<calls, storeVars, checkoutVars, catalogVars, shippingVars>>

UpdateQuantity(itemId, quantity) ==
  /\ IF DelegatesToRemove(quantity)
     THEN RemoveItemStep(itemId)
     ELSE IF ~HasId(items, itemId)
          THEN /\ toast' = "none"
               /\ UNCHANGED <<items, isOpen, timers, nextId, storage>>
          ELSE IF UpdateRejected(FindById(items, itemId), quantity)
               THEN /\ toast' = "error"
                    /\ UNCHANGED <<items, isOpen, timers, nextId, storage>>
               ELSE /\ items' = [i \in 1..Len(items) |->
                                   IF items[i].id = itemId
                                   THEN [items[i] EXCEPT !.quantity = quantity]
                                   ELSE items[i]]
                    /\ storage' = Persisted(items', isOpen)
                    /\ toast' = "none"
                    /\ UNCHANGED <<isOpen, timers, nextId>>
  /\ lastCall' = [op |-> "updateQuantity", itemId |-> itemId,
                  quantity |-> quantity, before |-> Before]
  /\ UNCHANGED <<calls, storeVars, checkoutVars, catalogVars, shippingVars>>

ClearCart ==
  /\ items' = <<>>
  /\ storage' = Persisted(items', isOpen)
  /\ toast' = "success"
  /\ lastCall' = [op |-> "clearCart"]
  /\ UNCHANGED <<isOpen, timers, nextId, calls, storeVars, checkoutVars,
                 catalogVars, shippingVars>>

ToggleCart ==
  /\ isOpen' = ~isOpen
  /\ storage' = Persisted(items, isOpen')
  /\ toast' = "none"
  /\ lastCall' = [op |-> "toggleCart"]
  /\ UNCHANGED <<items, timers, nextId, calls, storeVars, checkoutVars,
                 catalogVars, shippingVars>>

OpenCart ==
  /\ isOpen' = TRUE
  /\ storage' = Persisted(items, isOpen')
  /\ toast' = "none"
  /\ lastCall' = [op |-> "openCart"]
  /\ UNCHANGED <<items, timers, nextId, calls, storeVars, checkoutVars,
                 catalogVars, shippingVars>>

CloseCart ==
  /\ isOpen' = FALSE
  /\ storage' = Persisted(items, isOpen')
  /\ toast' = "none"
  /\ lastCall' = [op |-> "closeCart"]
  /\ UNCHANGED <<items, timers, nextId, calls, storeVars, checkoutVars,
                 catalogVars, shippingVars>>

\* The callback that closes the drawer only when no later callback is
\* pending.
AutoCloseAfterLastAdd ==
  /\ timers > 0
  /\ timers' = timers - 1
  /\ isOpen' = IF timers > 1 THEN isOpen ELSE FALSE
  /\ storage' = Persisted(items, isOpen')
  /\ lastCall' = [op |-> "autoClose", before |-> Before]
  /\ UNCHANGED <<items, toast, nextId, calls, storeVars, checkoutVars,
                 catalogVars, shippingVars>>

\* The callback addItem hands to setTimeout: get().closeCart().
AutoClose ==
  /\ timers > 0
  /\ timers' = timers - 1
  /\ isOpen' = FALSE
  /\ storage' = Persisted(items, isOpen')
  /\ lastCall' = [op |-> "autoClose", before |-> Before]
  /\ UNCHANGED <<items, toast, nextId, calls, storeVars, checkoutVars,
                 catalogVars, shippingVars>>

\* getTotalItems(): the store is read, nothing is set.
GetTotalItems ==
  /\ lastCall' = [op |-> "getTotalItems", result |-> getTotalItems(items),
                  before |-> Before]
  /\ UNCHANGED <<items, isOpen, timers, toast, nextId, calls, storage,
                 storeVars, checkoutVars, catalogVars, shippingVars>>

\* getTotalPrice(): the store is read, nothing is set.
GetTotalPrice ==
  /\ lastCall' = [op |-> "getTotalPrice", result |-> getTotalPrice(items),
                  before |-> Before]
  /\ UNCHANGED <<items, isOpen, timers, toast, nextId, calls, storage,
                 storeVars, checkoutVars, catalogVars, shippingVars>>

\* The page is loaded again: the store is constructed, the middleware
\* merges what the storage holds into it and writes it back; the timers of
\* the page that was left are gone.
Reload ==
  /\ items' = Rehydrated(storage).items
  /\ isOpen' = Rehydrated(storage).isOpen
  /\ storage' = Persisted(items', isOpen')
  /\ timers' = 0
  /\ toast' = "none"
  /\ lastCall' = [op |-> "reload", before |-> Before]
  /\ UNCHANGED <<nextId, calls, storeVars, checkoutVars, catalogVars,
                 shippingVars>>

\* One call of a run of addItem calls that all carry the tuple of the first
\* call, on a cart that starts empty; the call and its outcome are recorded.
AddSameTuple(newItem) ==
  /\ Len(calls) < MaxCalls
  /\ calls # <<>> =>
       /\ newItem.productId = calls[1].item.productId
       /\ newItem.variantId = calls[1].item.variantId
       /\ newItem.customizations = calls[1].item.customizations
  /\ AddItemStep(newItem)
  /\ calls' = Append(calls, [item |-> newItem, before |-> items,
                             after |-> items', toast |-> toast'])
  /\ UNCHANGED <<lastCall, storeVars, checkoutVars, catalogVars, shippingVars>>

CartNext ==
  \/ \E newItem \in ShopItems : AddItem(newItem)
  \/ \E itemId \in ItemIds : RemoveItem(itemId)
  \/ \E itemId \in ItemIds, quantity \in QtyInputs :
       UpdateQuantity(itemId, quantity)
  \/ ClearCart
  \/ ToggleCart
  \/ OpenCart
  \/ CloseCart
  \/ AutoClose
  \/ GetTotalItems
  \/ GetTotalPrice
  \/ Reload

SpecCart == Init /\ [][CartNext]_vars

\* The items the product pages pass: a quantity the quantity selector
\* offers, p1 customized or as variant v1, p2 plain.
PageItems ==
  { n \in ShopItems :
      /\ n.quantity >= 1
      /\ n.productId = "p1" /\ n.variantId = Undefined =>
           n.customizations = CustomA }

PageNext ==
  \/ \E newItem \in PageItems : AddItem(newItem)
  \/ \E itemId \in ItemIds : RemoveItem(itemId)
  \/ \E itemId \in ItemIds, quantity \in QtyInputs :
       UpdateQuantity(itemId, quantity)
  \/ ClearCart
  \/ ToggleCart
  \/ OpenCart
  \/ CloseCart
  \/ AutoClose
  \/ GetTotalItems
  \/ GetTotalPrice
  \/ Reload

SpecPages == Init /\ [][PageNext]_vars

AddSameNext ==
  \/ \E newItem \in NewItems : AddSameTuple(newItem)
  \/ AutoClose

SpecAddSame == Init /\ [][AddSameNext]_vars

(***************************************************************************)
(* Cart store: properties.                                                 *)
(***************************************************************************)
\* C1: every entry of the cart has 1 <= quantity <= maxQuantity, whatever
\* quantities addItem, removeItem, updateQuantity and clearCart were called
\* with.
QuantityInRange ==
  \A i \in 1..Len(items) :
    /\ 1 <= items[i].quantity
    /\ items[i].quantity <= items[i].maxQuantity

\* The ceiling the k-th call of a same-tuple run is measured against: the
\* maxQuantity of the entry when there is one, else the call's own.
Ceiling(k) ==
  IF calls[k].before # <<>> THEN calls[k].before[1].maxQuantity
  ELSE calls[k].item.maxQuantity

\* The sum of the quantities of those of the first k calls that do not push
\* the sum above the ceiling.
RECURSIVE SumAccepted(_)
SumAccepted(k) ==
  IF k = 0 THEN 0
  ELSE IF SumAccepted(k - 1) + calls[k].item.quantity > Ceiling(k)
       THEN SumAccepted(k - 1)
       ELSE SumAccepted(k - 1) + calls[k].item.quantity

Exceeds(k) == SumAccepted(k - 1) + calls[k].item.quantity > Ceiling(k)

\* A call that would push the sum above the ceiling leaves the items
\* unchanged and raises the stock error toast; every other call is accepted.
RejectedWhenExceeding ==
  \A k \in 1..Len(calls) :
    IF Exceeds(k)
    THEN calls[k].after = calls[k].before /\ calls[k].toast = "error"
    ELSE calls[k].toast = "success"

\* C2 as stated: after a run of same-tuple addItem calls on an empty cart
\* the cart has exactly one entry, whose quantity is the sum of the accepted
\* quantities, and a call that would exceed maxQuantity changes nothing and
\* signals CapacityExceeded.
SameTupleOneEntry ==
  calls # <<>> =>
    /\ Len(items) = 1
    /\ items[1].quantity = SumAccepted(Len(calls))
    /\ RejectedWhenExceeding

\* C2 amended: the cart has exactly one entry with the sum of the accepted
\* quantities once a call was accepted, and is empty while every call was
\* rejected; a call that would exceed maxQuantity changes nothing and
\* signals CapacityExceeded.
SameTupleOneEntryOnceAccepted ==
  /\ IF \E k \in 1..Len(calls) : ~Exceeds(k)
     THEN Len(items) = 1 /\ items[1].quantity = SumAccepted(Len(calls))
     ELSE items = <<>>
  /\ RejectedWhenExceeding

\* Witness of C2: two calls were merged into one entry and a third one was
\* rejected.
SameTupleWitness ==
  /\ Len(calls) = 3
  /\ Len(items) = 1
  /\ items[1].quantity = 2
  /\ \E k \in 1..3 : Exceeds(k) /\ calls[k].item.quantity = 1
  /\ \A k \in 1..3 : calls[k].item.quantity = 1

\* The customization payload as a key-value map: the set of its members.
CanonicalCustomizations(c) ==
  IF ~c.defined THEN {}
  ELSE { c.entries[i] : i \in 1..Len(c.entries) }

\* Two entries carry the same dedup tuple, the payloads compared as maps.
SameCanonicalTuple(a, b) ==
  /\ a.productId = b.productId
  /\ a.variantId = b.variantId
  /\ a.customizations.defined = b.customizations.defined
  /\ CanonicalCustomizations(a.customizations)
       = CanonicalCustomizations(b.customizations)

\* C13: no two entries of the cart carry the same dedup tuple (productId,
\* variantId, customization), the customization payloads compared as
\* key-value maps whatever the insertion order of their keys.
NoDuplicateTuple ==
  \A i, j \in 1..Len(items) :
    i # j => ~SameCanonicalTuple(items[i], items[j])

\* The entries of a sequence other than the one with an id, in their order.
Without(its, itemId) ==
  LET Other(item) == item.id # itemId
  IN  SelectSeq(its, Other)

\* C14: updateQuantity(id, q) with q <= 0 leaves the store as removeItem(id)
\* leaves it: the entry with the id is gone, the other entries are unchanged
\* and in their order, isOpen is unchanged; with an absent id nothing
\* changes.
UpdateToZeroIsRemove ==
  (lastCall.op = "updateQuantity" /\ lastCall.quantity <= 0) =>
    /\ items = FilterOut(lastCall.before.items, lastCall.itemId)
    /\ items = Without(lastCall.before.items, lastCall.itemId)
    /\ ~HasId(lastCall.before.items, lastCall.itemId) =>
         items = lastCall.before.items
    /\ isOpen = lastCall.before.isOpen
    /\ timers = lastCall.before.timers
    /\ toast = (IF HasId(lastCall.before.items, lastCall.itemId)
                THEN "success" ELSE "none")

\* Witness of C14: updateQuantity(id, 0) took the first of two entries out
\* of an open cart.
UpdateToZeroWitness ==
  /\ lastCall.op = "updateQuantity"
  /\ lastCall.quantity = 0
  /\ Len(lastCall.before.items) = 2
  /\ lastCall.before.items[1].id = lastCall.itemId
  /\ items = <<lastCall.before.items[2]>>
  /\ isOpen

\* C15: updateQuantity(id, q) with q > 0 on an entry of the cart signals
\* CapacityExceeded and changes nothing when q > maxQuantity of the entry;
\* otherwise the quantity of the entry is q and every other field, every
\* other entry and the order of the entries are as they were.
UpdateWithinCapacity ==
  (/\ lastCall.op = "updateQuantity"
   /\ lastCall.quantity > 0
   /\ HasId(lastCall.before.items, lastCall.itemId)) =>
    LET was == lastCall.before.items
    IN  IF \E i \in 1..Len(was) :
             was[i].id = lastCall.itemId
               /\ lastCall.quantity > was[i].maxQuantity
        THEN /\ toast = "error"
             /\ items = was
             /\ isOpen = lastCall.before.isOpen
             /\ timers = lastCall.before.timers
             /\ storage = lastCall.before.storage
        ELSE /\ toast # "error"
             /\ Len(items) = Len(was)
             /\ \A i \in 1..Len(was) :
                  IF was[i].id = lastCall.itemId
                  THEN /\ items[i].quantity = lastCall.quantity
                       /\ [items[i] EXCEPT !.quantity = 0]
                            = [was[i] EXCEPT !.quantity = 0]
                  ELSE items[i] = was[i]
             /\ isOpen = lastCall.before.isOpen

\* Witness of C15: updateQuantity on the second of two entries was turned
\* down for a quantity above maxQuantity.
UpdateRejectedWitness ==
  /\ lastCall.op = "updateQuantity"
  /\ Len(items) = 2
  /\ items[2].id = lastCall.itemId
  /\ lastCall.quantity > items[2].maxQuantity
  /\ toast = "error"

\* The quantity addItem(newItem) asks for is above the ceiling: with an
\* entry of the same tuple in the cart the sum is above the maxQuantity of
\* the entry, without one the quantity is above the item's maxQuantity.
ExceedsCapacity(its, newItem) ==
  IF \E i \in 1..Len(its) : SameTuple(its[i], newItem)
  THEN \E i \in 1..Len(its) :
         /\ SameTuple(its[i], newItem)
         /\ \A j \in 1..(i - 1) : ~SameTuple(its[j], newItem)
         /\ its[i].quantity + newItem.quantity > its[i].maxQuantity
  ELSE newItem.quantity > newItem.maxQuantity

\* C16: an addItem call that asks for more than the ceiling is turned down
\* with the stock toast, and a call that was turned down left items, isOpen
\* and the storage as they were and scheduled no timer; the call ended with
\* a toast, not with an exception.
RejectedAddChangesNothing ==
  lastCall.op = "addItem" =>
    /\ toast \in {"error", "success"}
    /\ toast = "error" <=> ExceedsCapacity(lastCall.before.items, lastCall.item)
    /\ toast = "error" =>
         /\ items = lastCall.before.items
         /\ isOpen = lastCall.before.isOpen
         /\ timers = lastCall.before.timers
         /\ storage = lastCall.before.storage

\* Witness of C16: an addItem that would be merged into an entry of a closed
\* cart was turned down.
RejectedAddWitness ==
  /\ lastCall.op = "addItem"
  /\ toast = "error"
  /\ ~isOpen
  /\ timers = 0
  /\ \E i \in 1..Len(items) : SameTuple(items[i], lastCall.item)

\* C17: what the middleware writes for the cart restores to a sequence of
\* entries equal to the items, entry by entry and field by field, and to a
\* closed drawer; after the page is loaded again the items are those of
\* before and isOpen is false, whatever it was.
RoundTrip ==
  /\ Rehydrated(Persisted(items, isOpen)).items = items
  /\ Rehydrated(Persisted(items, isOpen)).isOpen = FALSE
  /\ storage.written => Rehydrated(storage).items = items
  /\ lastCall.op = "reload" =>
       /\ items = lastCall.before.items
       /\ isOpen = FALSE

\* Witness of C17: the page was loaded again over an open cart of an entry
\* with a customization and no variant and an entry with a variant and no
\* customization.
RoundTripWitness ==
  /\ lastCall.op = "reload"
  /\ lastCall.before.isOpen
  /\ Len(items) = 2
  /\ \E i \in 1..2 :
       items[i].variantId = Undefined /\ items[i].customizations.defined
  /\ \E i \in 1..2 :
       items[i].variantId # Undefined /\ ~items[i].customizations.defined

\* The sum of f[1], ..., f[n], taken from the last term.
RECURSIVE SumOf(_, _)
SumOf(f, n) == IF n = 0 THEN 0 ELSE f[n] + SumOf(f, n - 1)

TotalOfPrices(its) ==
  SumOf([i \in 1..Len(its) |-> its[i].price * its[i].quantity], Len(its))

TotalOfQuantities(its) ==
  SumOf([i \in 1..Len(its) |-> its[i].quantity], Len(its))

\* C18: getTotalPrice() is the sum over the entries of price times quantity
\* and getTotalItems() the sum of the quantities, in every state of the
\* cart, and a call of either leaves the store as it was.
TotalsAreSums ==
  /\ getTotalPrice(items) = TotalOfPrices(items)
  /\ getTotalItems(items) = TotalOfQuantities(items)
  /\ lastCall.op = "getTotalPrice" =>
       lastCall.result = TotalOfPrices(lastCall.before.items)
  /\ lastCall.op = "getTotalItems" =>
       lastCall.result = TotalOfQuantities(lastCall.before.items)
  /\ lastCall.op \in {"getTotalPrice", "getTotalItems"} =>
       /\ items = lastCall.before.items
       /\ isOpen = lastCall.before.isOpen
       /\ timers = lastCall.before.timers
       /\ storage = lastCall.before.storage

\* Witness of C18: getTotalPrice() was called on a cart of two pieces of p1
\* and one of p2.
TotalsWitness ==
  /\ lastCall.op = "getTotalPrice"
  /\ Len(items) = 2
  /\ lastCall.result = 2 * CartPrice("p1") + CartPrice("p2")
  /\ getTotalItems(items) = 3

(***************************************************************************)
(* Checkout endpoint: helpers.                                             *)
(***************************************************************************)
\* calculateShipping of the checkout route, in cents.
calculateShipping(subtotal) ==
  IF subtotal >= 15000 THEN 0
  ELSE IF subtotal >= 10000 THEN 999
  ELSE IF subtotal >= 5000 THEN 1499
  ELSE 1999

\* items.map(item => item.productId)
RECURSIVE ProductIdsOf(_)
ProductIdsOf(lines) ==
  IF lines = <<>> THEN <<>>
  ELSE <<Head(lines).productId>> \o ProductIdsOf(Tail(lines))

\* The where clause without isActive: true.
ProductMatchesAnyState(row, id, productIds) ==
  \E i \in 1..Len(productIds) : productIds[i] = id

\* The where clause of prisma.product.findMany.
ProductMatches(row, id, productIds) ==
  /\ \E i \in 1..Len(productIds) : productIds[i] = id
  /\ row.isActive

\* The variants findMany includes with a product it returns.
VariantIncluded(row) == TRUE

\* prisma.product.findMany: the matching rows, each with its variants.
FindMany(productIds) ==
  LET found == { p \in DOMAIN products :
                   ProductMatches(products[p], p, productIds) }
  IN  [products |-> [p \in found |-> products[p]],
       variants |-> [v \in { w \in DOMAIN variants :
                               /\ variants[w].productId \in found
                               /\ VariantIncluded(variants[w]) }
                       |-> variants[v]]]

\* The test after findMany: true when the request is turned down.
CountMismatch(f, productIds) ==
  Cardinality(DOMAIN f.products) # Len(productIds)

\* product.variants.find(v => v.id === cartItem.variantId) found a variant.
VariantFound(f, cartItem) ==
  /\ cartItem.variantId \in DOMAIN f.variants
  /\ f.variants[cartItem.variantId].productId = cartItem.productId

\* The unit price without the sale price.
PriceOfBaseOnly(f, cartItem) ==
  IF cartItem.variantId # NoVariant
  THEN f.variants[cartItem.variantId].price
  ELSE f.products[cartItem.productId].basePrice

\* The unit price of a line: variant ? variant.price
\*                                   : (product.salePrice || product.basePrice)
PriceOf(f, cartItem) ==
  IF cartItem.variantId # NoVariant
  THEN f.variants[cartItem.variantId].price
  ELSE LET product == f.products[cartItem.productId]
       IN  IF product.hasSale THEN product.salePrice ELSE product.basePrice

\* The stock of the product, whatever the variant.
StockOfProduct(f, cartItem) ==
  f.products[cartItem.productId].stockQuantity

\* The stock of a line: variant ? variant.stockQuantity : product.stockQuantity
StockOf(f, cartItem) ==
  IF cartItem.variantId # NoVariant
  THEN f.variants[cartItem.variantId].stockQuantity
  ELSE f.products[cartItem.productId].stockQuantity

\* variant?.sku || product.sku
SkuOf(f, cartItem) ==
  IF cartItem.variantId # NoVariant
  THEN f.variants[cartItem.variantId].sku
  ELSE f.products[cartItem.productId].sku

\* product.images[0]?.url
ImageOf(f, cartItem) ==
  LET images == f.products[cartItem.productId].images
  IN  IF images = <<>> THEN NoImage ELSE images[1]

\* The inventory test that keeps the last piece back.
OutOfStockAtLastPiece(quantity, stock) == quantity >= stock

\* The inventory test of a line: true when the request is turned down.
OutOfStock(quantity, stock) == quantity > stock

\* amount * 100 in double precision, for an amount of dollars given in cents;
\* the result is in thousandths of a cent.  The product is exact for whole
\* dollars, for 14.99 and for 9.99; 19.99 * 100 is 1998.9999999999998.
TimesHundred(cents) ==
  IF cents = 1999 THEN cents * 1000 - 1 ELSE cents * 1000

\* Math.floor of a number given in thousandths.
MathFloor(x) == x \div 1000

\* Math.round of a number given in thousandths: the nearest integer.
MathRound(x) == (x + 500) \div 1000

\* The line item pushed for a line of the cart.
StripeLineItem(f, cartItem) ==
  [name |-> f.products[cartItem.productId].name,
   unit_amount |-> MathRound(TimesHundred(PriceOf(f, cartItem))),
   quantity |-> cartItem.quantity]

\* The for loop over the items: the first failure, or subtotal and line
\* items of all lines.
RECURSIVE ValidateLines(_, _, _, _)
ValidateLines(lines, f, subtotal, lineItems) ==
  IF lines = <<>>
  THEN [ok |-> TRUE, error |-> NoError,
        subtotal |-> subtotal, lineItems |-> lineItems]
  ELSE
    LET cartItem == Head(lines)
        Fail(kind, arg) ==
          [ok |-> FALSE, error |-> [kind |-> kind, arg |-> arg],
           subtotal |-> 0, lineItems |-> <<>>]
    IN  IF cartItem.productId \notin DOMAIN f.products
        THEN Fail("ProductNotFound", cartItem.productId)
        ELSE IF cartItem.variantId # NoVariant /\ ~VariantFound(f, cartItem)
        THEN Fail("VariantNotFound", cartItem.variantId)
        ELSE IF OutOfStock(cartItem.quantity, StockOf(f, cartItem))
        THEN Fail("InsufficientStock", f.products[cartItem.productId].name)
        ELSE ValidateLines(Tail(lines), f,
               subtotal + PriceOf(f, cartItem) * cartItem.quantity,
               Append(lineItems, StripeLineItem(f, cartItem)))

\* The shipping line item, pushed when shipping is charged.
ShippingLineItems(shippingCost) ==
  IF shippingCost > 0
  THEN << [name |-> "Shipping",
           unit_amount |-> MathRound(TimesHundred(shippingCost)),
           quantity |-> 1] >>
  ELSE <<>>

\* An element of items.create of the order.
OrderItemOf(f, cartItem) ==
  [productId |-> cartItem.productId,
   quantity |-> cartItem.quantity,
   unitPrice |-> PriceOf(f, cartItem),
   totalPrice |-> PriceOf(f, cartItem) * cartItem.quantity,
   productName |-> f.products[cartItem.productId].name,
   productImage |-> ImageOf(f, cartItem),
   productSku |-> SkuOf(f, cartItem)]

\* The data argument of prisma.order.create.
OrderData(lines, f, subtotal, shippingCost, orderNumber) ==
  [orderNumber |-> orderNumber,
   status |-> "PENDING",
   paymentStatus |-> "PENDING",
   subtotal |-> subtotal,
   taxAmount |-> 0,
   shippingAmount |-> shippingCost,
   discountAmount |-> 0,
   totalAmount |-> subtotal + shippingCost,
   stripePaymentId |-> NoSession,
   items |-> [i \in 1..Len(lines) |-> OrderItemOf(f, lines[i])]]

\* The response of the catch block with the status of a client error.
CatchResponseBadRequest(thrown) ==
  [status |-> 400,
   error |-> IF thrown.isError
             THEN [kind |-> "message", arg |-> thrown.message]
             ELSE [kind |-> "message",
                   arg |-> "Failed to create checkout session"],
   sessionId |-> NoSession, orderId |-> 0]

\* A 400 response with its message.
BadRequest(kind, arg) ==
  [status |-> 400, error |-> [kind |-> kind, arg |-> arg],
   sessionId |-> NoSession, orderId |-> 0]

\* The response of the catch block for a thrown value.
CatchResponse(thrown) ==
  [status |-> 500,
   error |-> IF thrown.isError
             THEN [kind |-> "message", arg |-> thrown.message]
             ELSE [kind |-> "message",
                   arg |-> "Failed to create checkout session"],
   sessionId |-> NoSession, orderId |-> 0]

\* console.error of the catch block.
CatchLog(thrown) == [tag |-> "Checkout error:", error |-> thrown]

\* The catch block, for a value thrown at a step.
Catch(a, step, thrown) ==
  /\ pc' = [pc EXCEPT ![a] = "done"]
  /\ response' = [response EXCEPT ![a] = CatchResponse(thrown)]
  /\ logged' = [logged EXCEPT ![a] = Append(@, CatchLog(thrown))]
  /\ failedAt' = [failedAt EXCEPT ![a] = step]

(***************************************************************************)
(* Checkout endpoint: the steps of POST, one per await.                    *)
(***************************************************************************)
\* !items, without the test of the length.
EmptySnapshotMissingOnly(req) == ~req.present

\* !items || items.length === 0
EmptySnapshot(req) == ~req.present \/ req.lines = <<>>

\* getServerSession and request.json return; the empty snapshot is turned
\* down, any other one has findMany issued.
Receive(a, bodies) ==
  /\ pc[a] = "idle"
  /\ \E req \in bodies :
       /\ request' = [request EXCEPT ![a] = req]
       /\ IF EmptySnapshot(req)
          THEN /\ pc' = [pc EXCEPT ![a] = "done"]
               /\ response' = [response EXCEPT
                                 ![a] = BadRequest("EmptyCart", "none")]
          ELSE /\ pc' = [pc EXCEPT ![a] = "fetching"]
               /\ UNCHANGED response
  /\ UNCHANGED <<now, fetched, readFrom, draft, order, session, orders,
                 sessions, logged, failedAt, storeVars, cartVars,
                 catalogVars, shippingVars>>

\* getServerSession or request.json throws.
ReceiveFails(a, thrown) ==
  /\ pc[a] = "idle"
  /\ Catch(a, "receive", thrown)
  /\ UNCHANGED <<now, request, fetched, readFrom, draft, order, session, orders,
                 sessions, storeVars, cartVars,
                 catalogVars, shippingVars>>

\* The database answers findMany.
FetchProducts(a) ==
  /\ pc[a] = "fetching"
  /\ fetched' = [fetched EXCEPT
                   ![a] = FindMany(ProductIdsOf(request[a].lines))]
  /\ readFrom' = [readFrom EXCEPT
                    ![a] = [products |-> products, variants |-> variants]]
  /\ pc' = [pc EXCEPT ![a] = "validating"]
  /\ UNCHANGED <<now, request, draft, order, session, orders, sessions,
                 response, logged, failedAt, storeVars, cartVars,
                 catalogVars, shippingVars>>

\* findMany throws.
FetchFails(a, thrown) ==
  /\ pc[a] = "fetching"
  /\ Catch(a, "fetch", thrown)
  /\ UNCHANGED <<now, request, fetched, readFrom, draft, order, session, orders,
                 sessions, storeVars, cartVars,
                 catalogVars, shippingVars>>

\* From the result of findMany to the call of order.create: the count test,
\* the loop over the lines, shipping, the order number and the order data.
Validate(a) ==
  /\ pc[a] = "validating"
  /\ LET lines == request[a].lines
         f == fetched[a]
         v == ValidateLines(lines, f, 0, <<>>)
         shippingCost == calculateShipping(v.subtotal)
     IN  IF CountMismatch(f, ProductIdsOf(lines))
         THEN /\ pc' = [pc EXCEPT ![a] = "done"]
              /\ response' = [response EXCEPT
                                ![a] = BadRequest("ProductUnavailable", "none")]
              /\ UNCHANGED draft
         ELSE IF ~v.ok
         THEN /\ pc' = [pc EXCEPT ![a] = "done"]
              /\ response' = [response EXCEPT
                                ![a] = BadRequest(v.error.kind, v.error.arg)]
              /\ UNCHANGED draft
         ELSE /\ pc' = [pc EXCEPT ![a] = "creating"]
              /\ draft' = [draft EXCEPT ![a] =
                   [made |-> TRUE,
                    data |-> OrderData(lines, f, v.subtotal, shippingCost, now),
                    lineItems |-> v.lineItems
                                    \o ShippingLineItems(shippingCost)]]
              /\ UNCHANGED response
  /\ UNCHANGED <<now, request, fetched, readFrom, order, session, orders,
                 sessions, logged, failedAt, storeVars, cartVars,
                 catalogVars, shippingVars>>

\* The unique index on orders.orderNumber turns an insert down.
OrderNumberTaken(orderNumber) ==
  \E i \in 1..Len(orders) : orders[i].orderNumber = orderNumber

UniqueViolation ==
  [isError |-> TRUE, message |-> "Unique constraint failed on orderNumber"]

\* order.create in a transaction that takes the pieces of the first line
\* off the stock.
CreateOrderTakingStock(a) ==
  /\ pc[a] = "creating"
  /\ IF OrderNumberTaken(draft[a].data.orderNumber)
     THEN /\ Catch(a, "create", UniqueViolation)
          /\ UNCHANGED <<orders, order, storeVars>>
     ELSE LET row == [id |-> Len(orders) + 1, attempt |-> a] @@ draft[a].data
              line == request[a].lines[1]
          IN  /\ orders' = Append(orders, row)
              /\ order' = [order EXCEPT ![a] = row]
              /\ pc' = [pc EXCEPT ![a] = "opening"]
              /\ IF line.variantId = NoVariant
                 THEN /\ products' = [products EXCEPT
                           ![line.productId].stockQuantity = @ - line.quantity]
                      /\ UNCHANGED <<variants, edits>>
                 ELSE /\ variants' = [variants EXCEPT
                           ![line.variantId].stockQuantity = @ - line.quantity]
                      /\ UNCHANGED <<products, edits>>
              /\ UNCHANGED <<response, logged, failedAt>>
  /\ UNCHANGED <<now, request, fetched, readFrom, draft, session, sessions,
                 cartVars, catalogVars, shippingVars>>

\* The database answers order.create: the row is inserted, or the insert is
\* turned down by the unique index and create throws.
CreateOrder(a) ==
  /\ pc[a] = "creating"
  /\ IF OrderNumberTaken(draft[a].data.orderNumber)
     THEN /\ Catch(a, "create", UniqueViolation)
          /\ UNCHANGED <<orders, order>>
     ELSE LET row == [id |-> Len(orders) + 1, attempt |-> a] @@ draft[a].data
          IN  /\ orders' = Append(orders, row)
              /\ order' = [order EXCEPT ![a] = row]
              /\ pc' = [pc EXCEPT ![a] = "opening"]
              /\ UNCHANGED <<response, logged, failedAt>>
  /\ UNCHANGED <<now, request, fetched, readFrom, draft, session, sessions,
                 storeVars, cartVars,
                 catalogVars, shippingVars>>

\* order.create throws.
CreateOrderFails(a, thrown) ==
  /\ pc[a] = "creating"
  /\ Catch(a, "create", thrown)
  /\ UNCHANGED <<now, request, fetched, readFrom, draft, order, session, orders,
                 sessions, storeVars, cartVars,
                 catalogVars, shippingVars>>

\* The payment provider answers sessions.create.
OpenSession(a) ==
  /\ pc[a] = "opening"
  /\ LET id == Len(sessions) + 1
     IN  /\ sessions' = Append(sessions,
               [id |-> id, attempt |-> a,
                line_items |-> draft[a].lineItems,
                metadata |-> [orderId |-> order[a].id,
                              orderNumber |-> order[a].orderNumber]])
         /\ session' = [session EXCEPT ![a] = id]
  /\ pc' = [pc EXCEPT ![a] = "linking"]
  /\ UNCHANGED <<now, request, fetched, readFrom, draft, order, orders,
                 response, logged, failedAt, storeVars, cartVars,
                 catalogVars, shippingVars>>

\* sessions.create throws.
OpenSessionFails(a, thrown) ==
  /\ pc[a] = "opening"
  /\ Catch(a, "open", thrown)
  /\ UNCHANGED <<now, request, fetched, readFrom, draft, order, session, orders,
                 sessions, storeVars, cartVars,
                 catalogVars, shippingVars>>

\* The success response returned without waiting for order.update.
LinkOrderNotAwaited(a) ==
  /\ pc[a] = "linking"
  /\ response' = [response EXCEPT
                    ![a] = [status |-> 200, error |-> NoError,
                            sessionId |-> session[a],
                            orderId |-> order[a].id]]
  /\ pc' = [pc EXCEPT ![a] = "done"]
  /\ UNCHANGED <<now, request, fetched, readFrom, draft, order, session,
                 orders, sessions, logged, failedAt, storeVars, cartVars,
                 catalogVars, shippingVars>>

\* The database answers order.update; the success response is returned.
LinkOrder(a) ==
  /\ pc[a] = "linking"
  /\ orders' = [i \in 1..Len(orders) |->
                  IF orders[i].id = order[a].id
                  THEN [orders[i] EXCEPT !.stripePaymentId = session[a]]
                  ELSE orders[i]]
  /\ response' = [response EXCEPT
                    ![a] = [status |-> 200, error |-> NoError,
                            sessionId |-> session[a],
                            orderId |-> order[a].id]]
  /\ pc' = [pc EXCEPT ![a] = "done"]
  /\ UNCHANGED <<now, request, fetched, readFrom, draft, order, session,
                 sessions, logged, failedAt, storeVars, cartVars,
                 catalogVars, shippingVars>>

\* order.update throws.
LinkOrderFails(a, thrown) ==
  /\ pc[a] = "linking"
  /\ Catch(a, "link", thrown)
  /\ UNCHANGED <<now, request, fetched, readFrom, draft, order, session, orders,
                 sessions, storeVars, cartVars,
                 catalogVars, shippingVars>>

\* A millisecond passes.
Tick ==
  /\ now < MaxClock
  /\ now' = now + 1
  /\ UNCHANGED <<pc, request, fetched, readFrom, draft, order, session,
                 orders, sessions, response, logged, failedAt, storeVars,
                 cartVars, catalogVars, shippingVars>>

(***************************************************************************)
(* The catalog changes under a checkout: the back office writes a row of   *)
(* products or of product_variants that a request names, before the        *)
(* request reads it or before the request uses what it read.               *)
(***************************************************************************)
Renamed(name) == IF name = "Silk Saree" THEN "Banarasi Saree"
                 ELSE IF name = "Lehenga" THEN "Bridal Lehenga"
                 ELSE name

\* The last piece is sold, or the shelf is filled again.
Restocked(stock) == IF stock = 0 THEN 1 ELSE stock - 1

ProductInUse(p) ==
  \E a \in Attempts :
    /\ pc[a] \in {"fetching", "validating"}
    /\ \E k \in 1..Len(request[a].lines) : request[a].lines[k].productId = p

VariantInUse(v) ==
  \E a \in Attempts :
    /\ pc[a] \in {"fetching", "validating"}
    /\ \E k \in 1..Len(request[a].lines) : request[a].lines[k].variantId = v

ProductEdited(p) ==
  /\ edits < MaxEdits
  /\ ProductInUse(p)
  /\ edits' = edits + 1
  /\ \/ products' = [products EXCEPT ![p].isActive = ~@]
     \/ products' = [products EXCEPT ![p].name = Renamed(@),
                                     ![p].hasSale = ~@]
     \/ products' = [products EXCEPT ![p].stockQuantity = Restocked(@)]
  /\ UNCHANGED <<variants, checkoutVars, cartVars,
                 catalogVars, shippingVars>>

VariantEdited(v) ==
  /\ edits < MaxEdits
  /\ VariantInUse(v)
  /\ edits' = edits + 1
  /\ \/ variants' = [variants EXCEPT ![v].isActive = ~@]
     \/ variants' = [variants EXCEPT ![v].price = @ + 500]
     \/ variants' = [variants EXCEPT ![v].stockQuantity = Restocked(@)]
  /\ UNCHANGED <<products, checkoutVars, cartVars,
                 catalogVars, shippingVars>>

\* One checkout request served while the catalog is edited.
Next ==
  \/ Receive("a1", Requests)
  \/ \E thrown \in Thrown(RequestErrors) \cup {NonError} :
       ReceiveFails("a1", thrown)
  \/ FetchProducts("a1")
  \/ \E thrown \in Thrown(DbErrors) : FetchFails("a1", thrown)
  \/ Validate("a1")
  \/ CreateOrder("a1")
  \/ \E thrown \in Thrown(DbErrors) : CreateOrderFails("a1", thrown)
  \/ OpenSession("a1")
  \/ \E thrown \in Thrown(StripeErrors) : OpenSessionFails("a1", thrown)
  \/ LinkOrder("a1")
  \/ \E thrown \in Thrown(DbErrors) : LinkOrderFails("a1", thrown)
  \/ \E p \in DOMAIN products : ProductEdited(p)
  \/ \E v \in DOMAIN variants : VariantEdited(v)

Spec == Init /\ [][Next]_vars

\* Two checkout requests served concurrently.
RaceNext ==
  \/ \E a \in Attempts : Receive(a, RaceRequests)
  \/ \E a \in Attempts, thrown \in Thrown(RequestErrors) \cup {NonError} :
       ReceiveFails(a, thrown)
  \/ \E a \in Attempts : FetchProducts(a)
  \/ \E a \in Attempts, thrown \in Thrown(DbErrors) : FetchFails(a, thrown)
  \/ \E a \in Attempts : Validate(a)
  \/ \E a \in Attempts : CreateOrder(a)
  \/ \E a \in Attempts, thrown \in Thrown(DbErrors) :
       CreateOrderFails(a, thrown)
  \/ \E a \in Attempts : OpenSession(a)
  \/ \E a \in Attempts, thrown \in Thrown(StripeErrors) :
       OpenSessionFails(a, thrown)
  \/ \E a \in Attempts : LinkOrder(a)
  \/ \E a \in Attempts, thrown \in Thrown(DbErrors) :
       LinkOrderFails(a, thrown)
  \/ Tick

SpecRace == Init /\ [][RaceNext]_vars

(***************************************************************************)
(* Checkout endpoint: properties.                                          *)
(***************************************************************************)
OrdersOf(a) == { i \in 1..Len(orders) : orders[i].attempt = a }
SessionsOf(a) == { i \in 1..Len(sessions) : sessions[i].attempt = a }
NoWrite(a) == OrdersOf(a) = {} /\ SessionsOf(a) = {}

\* findMany of the attempt has read the tables.
HasRead(a) == readFrom[a] # NoFetch

Succeeded(a) == pc[a] = "done" /\ response[a].status = 200

\* The unit price of a line in the tables as they were read: the price of
\* the variant when one is specified, else the sale price when there is one,
\* else the base price.
ReadPrice(a, line) ==
  IF line.variantId # NoVariant
  THEN readFrom[a].variants[line.variantId].price
  ELSE IF readFrom[a].products[line.productId].hasSale
       THEN readFrom[a].products[line.productId].salePrice
       ELSE readFrom[a].products[line.productId].basePrice

RECURSIVE ReadSubtotal(_, _)
ReadSubtotal(a, lines) ==
  IF lines = <<>> THEN 0
  ELSE ReadPrice(a, Head(lines)) * Head(lines).quantity
       + ReadSubtotal(a, Tail(lines))

\* C3: a successful checkout has created exactly one Order, PENDING/PENDING,
\* with tax and discount 0, totalAmount = subtotal + shippingAmount, the
\* subtotal being the sum of quantity times the price read from the tables,
\* and one OrderItem per line carrying name, image, sku and unit price of
\* the rows read during validation.
SuccessCreatesOneOrder ==
  \A a \in Attempts :
    Succeeded(a) =>
      /\ Cardinality(OrdersOf(a)) = 1
      /\ \A i \in OrdersOf(a) :
           LET o == orders[i]
               lines == request[a].lines
           IN  /\ o.status = "PENDING"
               /\ o.paymentStatus = "PENDING"
               /\ o.taxAmount = 0
               /\ o.discountAmount = 0
               /\ o.subtotal = ReadSubtotal(a, lines)
               /\ o.totalAmount = o.subtotal + o.shippingAmount
               /\ Len(o.items) = Len(lines)
               /\ \A k \in 1..Len(lines) :
                    LET row == readFrom[a].products[lines[k].productId]
                    IN  /\ o.items[k].productId = lines[k].productId
                        /\ o.items[k].quantity = lines[k].quantity
                        /\ o.items[k].unitPrice = ReadPrice(a, lines[k])
                        /\ o.items[k].productName = row.name
                        /\ o.items[k].productImage =
                             (IF row.images = <<>> THEN NoImage
                              ELSE row.images[1])
                        /\ o.items[k].productSku =
                             (IF lines[k].variantId # NoVariant
                              THEN readFrom[a].variants[lines[k].variantId].sku
                              ELSE row.sku)

\* Witness of C3: a checkout of two lines succeeded and a product of the
\* order was renamed after it was read.
SuccessWitness ==
  /\ Succeeded("a1")
  /\ Len(request["a1"].lines) = 2
  /\ Len(orders) = 1
  /\ \E k \in 1..2 :
       orders[1].items[k].productName
         # products[orders[1].items[k].productId].name

\* A line references a product that was inactive or absent when read.
Unavailable(a, line) ==
  \/ line.productId \notin DOMAIN readFrom[a].products
  \/ ~readFrom[a].products[line.productId].isActive

SomeUnavailable(a) ==
  \E k \in 1..Len(request[a].lines) : Unavailable(a, request[a].lines[k])

\* C4: a checkout whose snapshot references a product that is inactive or
\* absent when the products are read writes no Order and opens no payment
\* session, and it ends with the 400 response ProductUnavailable.
UnavailableRejected ==
  \A a \in Attempts :
    (HasRead(a) /\ SomeUnavailable(a)) =>
      /\ NoWrite(a)
      /\ pc[a] = "done" =>
           response[a] = BadRequest("ProductUnavailable", "none")

\* Witness of C4: a checkout of an active and a deactivated product ended.
UnavailableWitness ==
  /\ pc["a1"] = "done"
  /\ HasRead("a1")
  /\ Len(request["a1"].lines) = 2
  /\ ~Unavailable("a1", request["a1"].lines[1])
  /\ request["a1"].lines[2].productId \in DOMAIN readFrom["a1"].products
  /\ Unavailable("a1", request["a1"].lines[2])

\* The stock a line is measured against, in the tables as they were read:
\* the stock of the variant when one is specified, else of the product.
HasReadStock(a, line) ==
  /\ line.productId \in DOMAIN readFrom[a].products
  /\ line.variantId # NoVariant =>
       /\ line.variantId \in DOMAIN readFrom[a].variants
       /\ readFrom[a].variants[line.variantId].productId = line.productId

ReadStock(a, line) ==
  IF line.variantId # NoVariant
  THEN readFrom[a].variants[line.variantId].stockQuantity
  ELSE readFrom[a].products[line.productId].stockQuantity

OverStock(a, line) ==
  HasReadStock(a, line) /\ line.quantity > ReadStock(a, line)

SomeOverStock(a) ==
  \E k \in 1..Len(request[a].lines) : OverStock(a, request[a].lines[k])

\* C5 as stated: a checkout in which some line requests more than the
\* available stock writes no Order, opens no payment session and ends with
\* the 400 response InsufficientStock naming the product of such a line.
OverStockRejectedAsInsufficient ==
  \A a \in Attempts :
    (HasRead(a) /\ SomeOverStock(a)) =>
      /\ NoWrite(a)
      /\ pc[a] = "done" =>
           \E k \in 1..Len(request[a].lines) :
             /\ OverStock(a, request[a].lines[k])
             /\ response[a] =
                  BadRequest("InsufficientStock",
                    readFrom[a].products[request[a].lines[k].productId].name)

\* The variant a line specifies is a variant of the line's product.
VariantOfProduct(a, line) ==
  line.variantId # NoVariant =>
    /\ line.variantId \in DOMAIN readFrom[a].variants
    /\ readFrom[a].variants[line.variantId].productId = line.productId

\* The number of active products among the requested ids equals the number
\* of lines: the availability test of the endpoint lets the request pass.
CountTestPasses(a) ==
  Cardinality({ p \in DOMAIN readFrom[a].products :
                  /\ readFrom[a].products[p].isActive
                  /\ \E k \in 1..Len(request[a].lines) :
                       request[a].lines[k].productId = p })
    = Len(request[a].lines)

\* Line k is the first line over its stock and every line up to it names a
\* variant of its product, if it names one.
FirstOverStock(a, k) ==
  /\ OverStock(a, request[a].lines[k])
  /\ \A j \in 1..(k - 1) : ~OverStock(a, request[a].lines[j])
  /\ \A j \in 1..k : VariantOfProduct(a, request[a].lines[j])

\* C5 amended: a checkout in which some line requests more than the
\* available stock writes no Order, opens no payment session and ends with a
\* 400 response; the response is InsufficientStock naming the product of the
\* first such line when the availability test passes and every line up to
\* that one names a variant of its product, if it names one.
OverStockRejected ==
  \A a \in Attempts :
    (HasRead(a) /\ SomeOverStock(a)) =>
      /\ NoWrite(a)
      /\ pc[a] = "done" =>
           /\ response[a].status = 400
           /\ \A k \in 1..Len(request[a].lines) :
                (CountTestPasses(a) /\ FirstOverStock(a, k)) =>
                  response[a] =
                    BadRequest("InsufficientStock",
                      readFrom[a].products[request[a].lines[k].productId].name)

\* Witness of C5: the second line of a checkout was over its stock and the
\* checkout ended with InsufficientStock.
OverStockWitness ==
  /\ pc["a1"] = "done"
  /\ HasRead("a1")
  /\ Len(request["a1"].lines) = 2
  /\ CountTestPasses("a1")
  /\ FirstOverStock("a1", 2)
  /\ response["a1"].error.kind = "InsufficientStock"

\* C6: a checkout all of whose lines reference products that are active when
\* read is not turned down as ProductUnavailable, also when lines share a
\* product.
ActiveNotRejectedAsUnavailable ==
  \A a \in Attempts :
    (pc[a] = "done" /\ HasRead(a) /\ ~SomeUnavailable(a)) =>
      response[a] # BadRequest("ProductUnavailable", "none")

\* A line specifies a variant that was inactive when read.
InactiveVariant(a, line) ==
  /\ line.variantId # NoVariant
  /\ line.variantId \in DOMAIN readFrom[a].variants
  /\ ~readFrom[a].variants[line.variantId].isActive

\* C7: a checkout with a line that specifies an inactive variant writes no
\* Order and ends with a 400 response.
InactiveVariantRejected ==
  \A a \in Attempts :
    (HasRead(a) /\ \E k \in 1..Len(request[a].lines) :
                     InactiveVariant(a, request[a].lines[k])) =>
      /\ OrdersOf(a) = {}
      /\ pc[a] = "done" => response[a].status = 400

\* C8: an attempt that ended with a 400 response has written no Order and
\* opened no payment session; an empty or missing items list is answered
\* with EmptyCart, and no product was read for it.
BadRequestWritesNothing ==
  \A a \in Attempts :
    /\ (pc[a] = "done" /\ response[a].status = 400) =>
         /\ NoWrite(a)
         /\ response[a].error.kind \in
              {"EmptyCart", "ProductUnavailable", "InsufficientStock",
               "ProductNotFound", "VariantNotFound"}
    /\ (pc[a] # "idle" /\ failedAt[a] # "receive"
        /\ (~request[a].present \/ request[a].lines = <<>>)) =>
         /\ pc[a] = "done"
         /\ response[a] = BadRequest("EmptyCart", "none")
         /\ ~HasRead(a)
         /\ fetched[a] = NoFetch

\* Witness of C8: the first line of a checkout passed the loop and the
\* second one was turned down with a 400 for its variant.
BadRequestWitness ==
  /\ pc["a1"] = "done"
  /\ Len(request["a1"].lines) = 2
  /\ response["a1"].status = 400
  /\ response["a1"].error.kind = "VariantNotFound"
  /\ request["a1"].lines[1].quantity = 1

\* C9: when opening the payment session failed, the Order of the attempt
\* exists, is PENDING/PENDING and records no payment session, and the
\* response is a 500 without sessionId.
SessionFailureKeepsOrder ==
  \A a \in Attempts :
    failedAt[a] = "open" =>
      /\ Cardinality(OrdersOf(a)) = 1
      /\ \A i \in OrdersOf(a) :
           /\ orders[i].status = "PENDING"
           /\ orders[i].paymentStatus = "PENDING"
           /\ orders[i].stripePaymentId = NoSession
      /\ SessionsOf(a) = {}
      /\ response[a].status = 500
      /\ response[a].sessionId = NoSession

\* Witness of C9: sessions.create threw after the order was created.
SessionFailureWitness ==
  /\ failedAt["a1"] = "open"
  /\ pc["a1"] = "done"
  /\ Len(orders) = 1

\* What an attempt reports: the response and the console.error output.
Reported(a) == <<response[a], logged[a]>>

\* C10: what a checkout reports when the order update failed after the
\* session was opened differs from what a checkout reports when opening the
\* session failed or another step threw.
ReconciliationGapDistinguishable ==
  \A a, b \in Attempts :
    (/\ failedAt[a] = "link"
     /\ failedAt[b] \in {"receive", "fetch", "create", "open"})
      => Reported(a) # Reported(b)

\* C11: two checkout attempts that have reached order creation have
\* generated different order numbers, also when they read the same value of
\* the clock.
OrderNumbersDiffer ==
  \A a, b \in Attempts :
    (a # b /\ draft[a].made /\ draft[b].made) =>
      draft[a].data.orderNumber # draft[b].data.orderNumber

(***************************************************************************)
(* Shipping schedule: calculateShipping of the cart module and             *)
(* calculateShipping of the checkout route, called with the same amount.   *)
(***************************************************************************)
MaxDollars == 160    \* largest amount shipping is asked for, in dollars

\* The amounts, in cents.
Amounts == 0 .. (MaxDollars * 100)

\* calculateShipping of the cart module with > in place of >=.
calculateShippingOfCartAbove(amount) ==
  IF amount > 15000 THEN 0
  ELSE IF amount > 10000 THEN 999
  ELSE IF amount > 5000 THEN 1499
  ELSE 1999

\* calculateShipping of the cart module, in cents.
calculateShippingOfCart(amount) ==
  IF amount >= 15000 THEN 0
  ELSE IF amount >= 10000 THEN 999
  ELSE IF amount >= 5000 THEN 1499
  ELSE 1999

ShippingInit ==
  /\ CartInit
  /\ StoreInit
  /\ CheckoutInit
  /\ CatalogInit
  /\ totalPrice \in Amounts
  /\ shipping = NoShipping

\* The cart drawer shows the shipping cost of the amount.
CartShipping ==
  /\ shipping.cart = NotCalculated
  /\ shipping' = [shipping EXCEPT
                    !.cart = calculateShippingOfCart(totalPrice)]
  /\ UNCHANGED <<totalPrice, cartVars, storeVars, checkoutVars, catalogVars>>

\* The checkout route prices the shipping of the amount.
CheckoutShipping ==
  /\ shipping.checkout = NotCalculated
  /\ shipping' = [shipping EXCEPT
                    !.checkout = calculateShipping(totalPrice)]
  /\ UNCHANGED <<totalPrice, cartVars, storeVars, checkoutVars, catalogVars>>

ShippingNext == CartShipping \/ CheckoutShipping

SpecShipping == ShippingInit /\ [][ShippingNext]_vars

\* The schedule: the cost of shipping, in cents, is the cost of the tier
\* of the subtotal.
InSchedule(subtotal, cost) ==
  /\ subtotal >= 15000 => cost = 0
  /\ (10000 <= subtotal /\ subtotal < 15000) => cost = 999
  /\ (5000 <= subtotal /\ subtotal < 10000) => cost = 1499
  /\ subtotal < 5000 => cost = 1999

\* C12: for every subtotal the shipping cost is 0 from 150, 9.99 from 100
\* to below 150, 14.99 from 50 to below 100 and 19.99 below 50, and the
\* calculateShipping of the cart and the one of the checkout return the
\* same value.
ShippingTiersAgree ==
  /\ shipping.cart # NotCalculated => InSchedule(totalPrice, shipping.cart)
  /\ shipping.checkout # NotCalculated =>
       InSchedule(totalPrice, shipping.checkout)
  /\ (shipping.cart # NotCalculated /\ shipping.checkout # NotCalculated) =>
       shipping.cart = shipping.checkout

\* Witness of C12: both functions were called with 100.00 and returned 9.99.
ShippingTiersWitness ==
  /\ totalPrice = 10000
  /\ shipping = [cart |-> 999, checkout |-> 999]

(***************************************************************************)
(* Catalog endpoint: GET of the products route.  A search parameter is a   *)
(* string, kept as the sequence of its characters; a number of JavaScript  *)
(* is finite, NaN or Infinity.                                             *)
(***************************************************************************)
MaxPage == 3         \* largest page number a client asks for
MaxLimit == 3        \* largest page size a client asks for

Digits == <<"0", "1", "2", "3", "4", "5", "6", "7", "8", "9">>

IsDigit(ch) == \E i \in 1..10 : Digits[i] = ch

DigitValue(ch) == (CHOOSE i \in 1..10 : Digits[i] = ch) - 1

\* String(n) of a natural number.
RECURSIVE Decimal(_)
Decimal(n) ==
  IF n < 10 THEN <<Digits[n + 1]>>
  ELSE Decimal(n \div 10) \o <<Digits[(n % 10) + 1]>>

Finite(n) == [kind |-> "finite", value |-> n]
NaN == [kind |-> "NaN", value |-> 0]
Infinity == [kind |-> "Infinity", value |-> 0]

\* The digits a string starts with.
RECURSIVE LeadingDigits(_)
LeadingDigits(text) ==
  IF text = <<>> \/ ~IsDigit(Head(text)) THEN <<>>
  ELSE <<Head(text)>> \o LeadingDigits(Tail(text))

RECURSIVE ValueOfDigits(_, _)
ValueOfDigits(digits, value) ==
  IF digits = <<>> THEN value
  ELSE ValueOfDigits(Tail(digits), 10 * value + DigitValue(Head(digits)))

\* parseInt(text): an optional sign and the digits that follow it, whatever
\* comes after them; NaN when no digit follows.
parseInt(text) ==
  LET signed == text # <<>> /\ Head(text) \in {"-", "+"}
      digits == LeadingDigits(IF signed THEN Tail(text) ELSE text)
  IN  IF digits = <<>> THEN NaN
      ELSE IF signed /\ Head(text) = "-"
           THEN Finite(0 - ValueOfDigits(digits, 0))
           ELSE Finite(ValueOfDigits(digits, 0))

\* A search parameter that is not in the URL.
Absent == [present |-> FALSE, text |-> <<>>]

Given(text) == [present |-> TRUE, text |-> text]

\* val || fallback, for a parameter that is a string or undefined.
OrElse(param, fallback) ==
  IF ~param.present \/ param.text = <<>> THEN fallback ELSE param.text

SortByEnum == {"featured", "price-asc", "price-desc", "name", "newest"}

\* The search parameters clients send.
PageParams ==
  {Absent, Given(<<>>), Given(<<"a", "b", "c">>), Given(<<"2", "x">>),
   Given(<<"-", "1">>)}
  \cup { Given(Decimal(n)) : n \in 0..MaxPage }

LimitParams ==
  {Absent, Given(<<"a", "b", "c">>), Given(<<"-", "1">>)}
  \cup { Given(Decimal(n)) : n \in 0..MaxLimit }

SortByParams == {Undefined, "name", "newest", "cheapest"}

InStockParams == {Undefined, "true"}

Queries ==
  { [asked |-> TRUE, page |-> pg, limit |-> lm, sortBy |-> sb, inStock |-> st] :
      pg \in PageParams, lm \in LimitParams, sb \in SortByParams,
      st \in InStockParams }

\* ProductQuerySchema.parse: a ZodError for a sortBy outside the enum, else
\* the transformed parameters.
ProductQuerySchema(q) ==
  IF q.sortBy # Undefined /\ q.sortBy \notin SortByEnum
  THEN [ok |-> FALSE]
  ELSE [ok |-> TRUE,
        page |-> parseInt(OrElse(q.page, <<"1">>)),
        limit |-> parseInt(OrElse(q.limit, <<"1", "2">>)),
        sortBy |-> IF q.sortBy = Undefined THEN "featured" ELSE q.sortBy,
        inStock |-> q.inStock = "true"]

\* a - b and a * b of JavaScript, for numbers that are finite or NaN.
Minus(a, b) ==
  IF a.kind = "NaN" \/ b.kind = "NaN" THEN NaN
  ELSE Finite(a.value - b.value)

Times(a, b) ==
  IF a.kind = "NaN" \/ b.kind = "NaN" THEN NaN
  ELSE Finite(a.value * b.value)

\* a < b of JavaScript: false when one of them is NaN.
Less(a, b) ==
  IF a.kind = "NaN" \/ b.kind = "NaN" THEN FALSE
  ELSE IF a.kind = "Infinity" THEN FALSE
  ELSE IF b.kind = "Infinity" THEN TRUE
  ELSE a.value < b.value

\* Math.floor(count / limit), for a count that is a natural number.
FloorOfQuotient(count, limit) ==
  IF limit.kind = "NaN" THEN NaN
  ELSE IF limit.value = 0 THEN (IF count = 0 THEN NaN ELSE Infinity)
  ELSE IF limit.value > 0 THEN Finite(count \div limit.value)
  ELSE Finite(0 - ((count + (0 - limit.value) - 1) \div (0 - limit.value)))

\* Math.ceil(count / limit), for a count that is a natural number.
CeilOfQuotient(count, limit) ==
  IF limit.kind = "NaN" THEN NaN
  ELSE IF limit.value = 0 THEN (IF count = 0 THEN NaN ELSE Infinity)
  ELSE IF limit.value > 0
       THEN Finite((count + limit.value - 1) \div limit.value)
  ELSE Finite(0 - (count \div (0 - limit.value)))

\* The rows of the products table the catalog is served from.
CatalogProducts ==
  [p \in {"p1", "p2", "p3", "p4", "p5"} |->
     IF p \in DOMAIN InitProducts THEN InitProducts[p]
     ELSE IF p = "p3"
     THEN [isActive |-> FALSE, name |-> "Anarkali", sku |-> "SKU-P3",
           images |-> <<>>, basePrice |-> 8000, hasSale |-> FALSE,
           salePrice |-> 0, stockQuantity |-> 2]
     ELSE IF p = "p4"
     THEN [isActive |-> TRUE, name |-> "Kurta", sku |-> "SKU-P4",
           images |-> <<>>, basePrice |-> 3000, hasSale |-> FALSE,
           salePrice |-> 0, stockQuantity |-> 0]
     ELSE [isActive |-> TRUE, name |-> "Dupatta", sku |-> "SKU-P5",
           images |-> <<>>, basePrice |-> 1500, hasSale |-> FALSE,
           salePrice |-> 0, stockQuantity |-> 3]]

\* The order the database gives the rows of CatalogProducts for the orderBy
\* clause of a sort mode.
OrderBy(sortBy) ==
  IF sortBy = "name" THEN <<"p3", "p5", "p4", "p2", "p1">>
  ELSE IF sortBy = "newest" THEN <<"p5", "p4", "p3", "p2", "p1">>
  ELSE IF sortBy = "price-asc" THEN <<"p1", "p5", "p4", "p3", "p2">>
  ELSE IF sortBy = "price-desc" THEN <<"p2", "p3", "p4", "p5", "p1">>
  ELSE <<"p1", "p2", "p3", "p4", "p5">>

\* The where clause: isActive, and stockQuantity > 0 when inStock is set.
Where(row, inStock) ==
  /\ row.isActive
  /\ inStock => row.stockQuantity > 0

\* The rows that match the where clause, in the order of the orderBy clause.
Matching(parsed) ==
  LET Matches(p) == p \in DOMAIN products /\ Where(products[p], parsed.inStock)
  IN  SelectSeq(OrderBy(parsed.sortBy), Matches)

\* What the database client does with a skip or a take that is NaN: it
\* turns the query down, or it takes the argument as not given.
NaNHandlings == {"rejected", "ignored"}

\* findMany turns the query down: a negative skip, or a NaN.
QueryRejected(skip, take, handling) ==
  \/ skip.kind = "finite" /\ skip.value < 0
  \/ (skip.kind = "NaN" \/ take.kind = "NaN") /\ handling = "rejected"

Min(a, b) == IF a < b THEN a ELSE b
Max(a, b) == IF a > b THEN a ELSE b

\* findMany({skip, take}) on the matching rows: take rows after skipping
\* skip of them; a negative take counts from the end of the list.
SkipTake(rows, skip, take) ==
  LET s == IF skip.kind = "NaN" THEN 0 ELSE skip.value
      n == Len(rows)
  IN  IF take.kind = "NaN" THEN SubSeq(rows, s + 1, n)
      ELSE IF take.value >= 0
           THEN SubSeq(rows, s + 1, Min(n, s + take.value))
      ELSE SubSeq(rows, Max(1, n - s + take.value + 1), n - s)

NoPagination == [page |-> NaN]

\* The 400 response of the catch block for a ZodError.
InvalidQuery ==
  [status |-> 400, error |-> "Invalid query parameters", products |-> <<>>,
   pagination |-> NoPagination]

\* The 500 response of the catch block.
FetchFailed ==
  [status |-> 500, error |-> "Failed to fetch products", products |-> <<>>,
   pagination |-> NoPagination]

\* The response of GET when the database answers.
Respond(q, handling) ==
  LET parsed == ProductQuerySchema(q) IN
  IF ~parsed.ok THEN InvalidQuery
  ELSE
    LET skip == Times(Minus(parsed.page, Finite(1)), parsed.limit)
        rows == Matching(parsed)
        totalCount == Len(rows)
        totalPages == CeilOfQuotient(totalCount, parsed.limit)
    IN  IF QueryRejected(skip, parsed.limit, handling) THEN FetchFailed
        ELSE [status |-> 200, error |-> "none",
              products |-> SkipTake(rows, skip, parsed.limit),
              pagination |->
                [page |-> parsed.page,
                 limit |-> parsed.limit,
                 totalCount |-> totalCount,
                 totalPages |-> totalPages,
                 hasNextPage |-> Less(parsed.page, totalPages),
                 hasPreviousPage |-> Less(Finite(1), parsed.page)]]

\* GET is served: the parameters are parsed, the database answers findMany
\* and count, the response is built.
Get(q) ==
  /\ query' = q
  /\ \E handling \in NaNHandlings : listing' = Respond(q, handling)
  /\ UNCHANGED <<cartVars, storeVars, checkoutVars, shippingVars>>

\* GET is served and the database client throws.
GetFails(q) ==
  /\ ProductQuerySchema(q).ok
  /\ query' = q
  /\ listing' = FetchFailed
  /\ UNCHANGED <<cartVars, storeVars, checkoutVars, shippingVars>>

CatalogTableInit ==
  /\ CartInit
  /\ products = CatalogProducts
  /\ variants = InitVariants
  /\ edits = 0
  /\ CheckoutInit
  /\ CatalogInit
  /\ totalPrice = 0
  /\ shipping = NoShipping

CatalogNext ==
  \/ \E q \in Queries : Get(q)
  \/ \E q \in Queries : GetFails(q)

SpecCatalog == CatalogTableInit /\ [][CatalogNext]_vars

(***************************************************************************)
(* Catalog endpoint: properties.                                           *)
(***************************************************************************)
\* The text is a numeral: digits, after a minus sign or not.
IsNumeral(text) ==
  LET body == IF text # <<>> /\ Head(text) = "-" THEN Tail(text) ELSE text
  IN  body # <<>> /\ \A i \in 1..Len(body) : IsDigit(body[i])

\* The number a numeral stands for.
NumeralValue(text) ==
  IF Head(text) = "-" THEN 0 - ValueOfDigits(Tail(text), 0)
  ELSE ValueOfDigits(text, 0)

\* A parameter is given and is not a number.
NonNumeric(param) ==
  param.present /\ param.text # <<>> /\ ~IsNumeral(param.text)

\* The request has a malformed parameter: a page or a limit that is not a
\* number, a page below 1, a sortBy outside the enum.
Malformed(q) ==
  \/ NonNumeric(q.page)
  \/ NonNumeric(q.limit)
  \/ /\ q.page.present
     /\ IsNumeral(q.page.text)
     /\ NumeralValue(q.page.text) < 1
  \/ q.sortBy # Undefined /\ q.sortBy \notin SortByEnum

\* C19: a catalog request with a malformed parameter is answered with the
\* 400 validation error and with no products.
MalformedRejected ==
  (query.asked /\ Malformed(query)) =>
    /\ listing.status = 400
    /\ listing.products = <<>>

\* n is the least integer that is not below count / size.
IsCeiling(n, count, size) ==
  \/ size > 0 /\ n * size >= count /\ (n - 1) * size < count
  \/ size < 0 /\ n * size <= count /\ (n - 1) * size > count

\* The response carries the pagination of the page: totalPages is
\* ceil(totalCount / limit), hasNextPage is page < totalPages,
\* hasPreviousPage is page > 1, and the products are at most limit rows of
\* the matching ones from offset (page - 1) * limit on.
PaginationHolds(page, limit) ==
  LET pg == listing.pagination
      rows == Matching(ProductQuerySchema(query))
      offset == (page - 1) * limit
  IN  /\ pg.totalCount = Len(rows)
      /\ pg.totalPages.kind = "finite"
      /\ IsCeiling(pg.totalPages.value, pg.totalCount, limit)
      /\ pg.hasNextPage = (page < pg.totalPages.value)
      /\ pg.hasPreviousPage = (page > 1)
      /\ Len(listing.products) <= limit
      /\ \A k \in 1..Len(listing.products) :
           /\ offset + k \in 1..Len(rows)
           /\ listing.products[k] = rows[offset + k]
      /\ (Len(listing.products) < limit) =>
           offset + Len(listing.products) >= Len(rows)

GenericCheckoutMessage == "Failed to create checkout session"

\* C21: an attempt of checkout in which a step threw is answered with status
\* 500 and the fixed generic message, and a catalog request the database
\* failed is answered with status 500 and its fixed generic message: the
\* message of the thrown error is not in the response.
InternalFailureGeneric ==
  /\ \A a \in Attempts :
       failedAt[a] # "none" =>
         /\ response[a].status = 500
         /\ response[a].error.arg = GenericCheckoutMessage
  /\ listing.status = 500 => listing.error = "Failed to fetch products"

\* The steps of an attempt that write: the order of the awaits of POST.
StepsBefore(step) ==
  IF step = "receive" THEN {}
  ELSE IF step = "fetch" THEN {}
  ELSE IF step = "create" THEN {}
  ELSE IF step = "open" THEN {"create"}
  ELSE IF step = "link" THEN {"create", "open"}
  ELSE {"create", "open", "link"}

\* The writes of an attempt are those of the given steps and no other:
\* "create" inserted the Order, "open" opened the payment session, "link"
\* recorded the session id in the Order.
WritesAre(a, steps) ==
  /\ Cardinality(OrdersOf(a)) = (IF "create" \in steps THEN 1 ELSE 0)
  /\ Cardinality(SessionsOf(a)) = (IF "open" \in steps THEN 1 ELSE 0)
  /\ \A i \in OrdersOf(a) :
       IF "link" \in steps
       THEN /\ orders[i].stripePaymentId # NoSession
            /\ \E j \in SessionsOf(a) :
                 sessions[j].id = orders[i].stripePaymentId
       ELSE orders[i].stripePaymentId = NoSession

\* C22: the steps of an attempt happen in the order validate, create order,
\* open payment session, link: a payment session of an attempt exists only
\* with the persisted Order it names, an Order records a session only when
\* that session was opened, an attempt in which a step threw or that was
\* turned down has executed the steps before that one and no later one, and
\* a success response carries the session id its Order records.
StepsInOrder ==
  \A a \in Attempts :
    /\ \A j \in SessionsOf(a) :
         \E i \in OrdersOf(a) :
           /\ sessions[j].metadata.orderId = orders[i].id
           /\ sessions[j].metadata.orderNumber = orders[i].orderNumber
    /\ \A i \in OrdersOf(a) :
         orders[i].stripePaymentId # NoSession =>
           \E j \in SessionsOf(a) : sessions[j].id = orders[i].stripePaymentId
    /\ failedAt[a] # "none" =>
         /\ pc[a] = "done"
         /\ WritesAre(a, StepsBefore(failedAt[a]))
    /\ (pc[a] = "done" /\ response[a].status = 400) => WritesAre(a, {})
    /\ pc[a] \in {"idle", "fetching", "validating", "creating"} =>
         WritesAre(a, {})
    /\ pc[a] = "opening" => WritesAre(a, {"create"})
    /\ pc[a] = "linking" => WritesAre(a, {"create", "open"})
    /\ Succeeded(a) =>
         /\ WritesAre(a, {"create", "open", "link"})
         /\ response[a].sessionId # NoSession
         /\ \A i \in OrdersOf(a) :
              /\ orders[i].id = response[a].orderId
              /\ orders[i].stripePaymentId = response[a].sessionId

\* Witness of C22: an attempt went through all four steps and its Order
\* records the session id of its response.
StepsInOrderWitness ==
  /\ Succeeded("a1")
  /\ Len(orders) = 1
  /\ Len(sessions) = 1
  /\ orders[1].stripePaymentId = sessions[1].id
  /\ response["a1"].sessionId = sessions[1].id
  /\ sessions[1].metadata.orderId = orders[1].id

\* Every line of the attempt names an active product that was read, each
\* product once, a variant of its product if it names one, and a quantity
\* within the stock that was read: the attempt alone is covered.
CoveredAlone(a) ==
  /\ request[a].present
  /\ request[a].lines # <<>>
  /\ ~SomeUnavailable(a)
  /\ CountTestPasses(a)
  /\ \A k \in 1..Len(request[a].lines) :
       /\ VariantOfProduct(a, request[a].lines[k])
       /\ ~OverStock(a, request[a].lines[k])

\* The first lines of two attempts are after the same stock.
SameStock(a, b) ==
  /\ request[a].lines[1].productId = request[b].lines[1].productId
  /\ request[a].lines[1].variantId = request[b].lines[1].variantId

\* C23: concurrent attempts are not serialized.  An attempt that is covered
\* by the stock it read passes validation and is not turned down, whatever
\* Orders other attempts have created from the same stock in between, and
\* the Order it creates carries its quantities; two attempts after the same
\* stock, each covered alone, so both create an Order.
RaceNotSerialized ==
  \A a \in Attempts :
    (/\ HasRead(a)
     /\ pc[a] \notin {"fetching", "validating"}
     /\ CoveredAlone(a)) =>
      /\ draft[a].made
      /\ response[a].status # 400
      /\ pc[a] \in {"opening", "linking"} \/ Succeeded(a) =>
           /\ Cardinality(OrdersOf(a)) = 1
           /\ \A i \in OrdersOf(a), k \in 1..Len(request[a].lines) :
                orders[i].items[k].quantity = request[a].lines[k].quantity

\* Witness of C23: both attempts have created an Order for the same product
\* or variant; each quantity is within the stock, their sum is not.
RaceWitness ==
  /\ Cardinality(OrdersOf("a1")) = 1
  /\ Cardinality(OrdersOf("a2")) = 1
  /\ SameStock("a1", "a2")
  /\ LET l1 == request["a1"].lines[1]
         l2 == request["a2"].lines[1]
         stock == ReadStock("a1", l1)
     IN  /\ ReadStock("a2", l2) = stock
         /\ l1.quantity <= stock
         /\ l2.quantity <= stock
         /\ l1.quantity + l2.quantity > stock
         /\ orders[1].items[1].quantity + orders[2].items[1].quantity > stock

\* The step is an addItem that succeeded.
AddSucceeds ==
  /\ lastCall'.op = "addItem"
  /\ lastCall' # lastCall
  /\ toast' = "success"

\* The step is an auto-close callback firing.
CallbackFires ==
  /\ lastCall'.op = "autoClose"
  /\ lastCall' # lastCall

\* C24: every successful addItem opens the drawer and schedules one
\* auto-close callback; no operation of the store takes a pending callback
\* away, only its firing (or leaving the page) does; a callback that fires
\* closes the drawer, also when the drawer was opened after the callback was
\* scheduled, so that after the last pending callback the drawer is closed;
\* only addItem, openCart and toggleCart open the drawer.
DrawerAutoCloses ==
  [][/\ AddSucceeds => (isOpen' /\ timers' = timers + 1)
     /\ timers' > timers => AddSucceeds
     /\ CallbackFires => (~isOpen' /\ timers' = timers - 1)
     /\ timers' < timers => (CallbackFires \/ lastCall'.op = "reload")
     /\ (CallbackFires /\ timers' = 0) => ~isOpen'
     /\ (~isOpen /\ isOpen') =>
          (AddSucceeds \/ lastCall'.op \in {"openCart", "toggleCart"})
    ]_vars

\* Witness of C24: a callback fired while the callback of a later addItem
\* was pending and closed the drawer that addItem had opened.
DrawerClosedEarlyWitness ==
  /\ lastCall.op = "autoClose"
  /\ lastCall.before.timers = 2
  /\ lastCall.before.isOpen
  /\ timers = 1
  /\ ~isOpen
  /\ Len(items) = 2

\* The stock of every row of a snapshot of the tables is the stock the
\* tables started with.
StockAsAtStart(tables) ==
  /\ \A p \in DOMAIN tables.products :
       tables.products[p].stockQuantity = InitProducts[p].stockQuantity
  /\ \A v \in DOMAIN tables.variants :
       tables.variants[v].stockQuantity = InitVariants[v].stockQuantity

\* C25: no step of a checkout attempt, successful or failed, changes the
\* stockQuantity of a product or of a variant, so every attempt is validated
\* against the stock the tables started with, however many Orders were
\* created before it read.
StockUndiminished ==
  /\ StockAsAtStart([products |-> products, variants |-> variants])
  /\ \A a \in Attempts : HasRead(a) => StockAsAtStart(readFrom[a])

\* Witness of C25: two checkouts of one piece of p1 each have succeeded and
\* the stock of p1 is still the one piece it was.
StockUndiminishedWitness ==
  /\ Succeeded("a1")
  /\ Succeeded("a2")
  /\ \A a \in Attempts :
       /\ request[a].lines[1].productId = "p1"
       /\ request[a].lines[1].variantId = NoVariant
       /\ request[a].lines[1].quantity = 1
  /\ products["p1"].stockQuantity = 1
  /\ Len(orders) = 2

\* C26: every Order in the orders table has only OrderItems with a quantity
\* of at least 1, a subtotal that is not negative and a totalAmount above 0,
\* whatever quantities the request carried.
OrdersWellFormed ==
  \A i \in 1..Len(orders) :
    /\ \A k \in 1..Len(orders[i].items) : orders[i].items[k].quantity >= 1
    /\ orders[i].subtotal >= 0
    /\ orders[i].totalAmount > 0

\* The amount of a list of line items: the sum of unit_amount x quantity.
RECURSIVE AmountOf(_)
AmountOf(lineItems) ==
  IF lineItems = <<>> THEN 0
  ELSE Head(lineItems).unit_amount * Head(lineItems).quantity
       + AmountOf(Tail(lineItems))

\* C27: the payment session of a successful checkout amounts, in cents, to
\* 100 x the totalAmount of the Order of the checkout; its line items are one
\* per line of the request, amounting to the subtotal, followed by a shipping
\* line of quantity 1 exactly when the shipping cost is above 0.
SessionAmountIsOrderTotal ==
  \A a \in Attempts :
    Succeeded(a) =>
      \A i \in OrdersOf(a), j \in SessionsOf(a) :
        LET o == orders[i]
            lineItems == sessions[j].line_items
            n == Len(request[a].lines)
        IN  /\ sessions[j].id = response[a].sessionId
            /\ AmountOf(lineItems) = o.totalAmount
            /\ Len(lineItems) >= n
            /\ AmountOf(SubSeq(lineItems, 1, n)) = o.subtotal
            /\ \A k \in 1..n :
                 /\ lineItems[k].quantity = o.items[k].quantity
                 /\ lineItems[k].unit_amount = o.items[k].unitPrice
            /\ Len(lineItems) = n + 1 <=> o.shippingAmount > 0
            /\ Len(lineItems) = n <=> o.shippingAmount = 0
            /\ o.shippingAmount > 0 =>
                 /\ lineItems[n + 1].name = "Shipping"
                 /\ lineItems[n + 1].quantity = 1
                 /\ lineItems[n + 1].unit_amount = o.shippingAmount

\* Witness of C27: a checkout of one piece of p1 at its sale price of 45.00
\* succeeded with a shipping line of 19.99.
SessionAmountWitness ==
  /\ Succeeded("a1")
  /\ Len(sessions) = 1
  /\ Len(sessions[1].line_items) = 2
  /\ sessions[1].line_items[2].name = "Shipping"
  /\ AmountOf(sessions[1].line_items) = 6499
  /\ orders[1].totalAmount = 6499
  /\ orders[1].subtotal = 4500

====
